---- MODULE Spec2Model ----
(***************************************************************************)
(* Model of the NG tooltip editor (src/src/Tooltip/TooltipEditor.tsx): a   *)
(* React function component that scans the document for elements carrying  *)
(* data-tooltip-id, keeps an editable dictionary seeded from local storage *)
(* or from the host's default, wires DOM listeners on the scanned          *)
(* elements, and saves / previews / imports the dictionary.                *)
(*                                                                         *)
(* One action is one event as the browser runs it: the handler, then the   *)
(* re-render React performs for the state it set, then the effects whose   *)
(* dependencies changed.  The hover handlers only toggle the bold class;   *)
(* their listeners are part of the state, their firing is not an event.    *)
(***************************************************************************)
EXTENDS Integers, Sequences, FiniteSets, TLC

(***************************************************************************)
(* Bounds of the exploration                                               *)
(***************************************************************************)
\* number of events (of the host, the user and the clock) in one run
MaxEvents == 6
\* the clock stops this many milliseconds after a snapshot saved at the
\* start of the run has reached its expiry
MaxLate == 1

(***************************************************************************)
(* JavaScript values: undefined, null, strings, numbers and plain objects. *)
(* Every value has the same four fields so that any two can be compared.   *)
(***************************************************************************)
NoProps == [k \in {} |-> 0]
JsValue(t, s, n, p) == [type |-> t, str |-> s, num |-> n, props |-> p]
Undefined == JsValue("undefined", "", 0, NoProps)
Null == JsValue("null", "", 0, NoProps)
Str(s) == JsValue("string", s, 0, NoProps)
Num(n) == JsValue("number", "", n, NoProps)
Obj(p) == JsValue("object", "", 0, p)

\* typeof v: null reports "object"
TypeOf(v) == IF v.type = "null" THEN "object" ELSE v.type

\* ToBoolean(v)
Truthy(v) ==
  CASE v.type = "undefined" -> FALSE
    [] v.type = "null" -> FALSE
    [] v.type = "string" -> v.str # ""
    [] v.type = "number" -> v.num # 0
    [] OTHER -> TRUE

\* v[k] throws a TypeError exactly when v is undefined or null
IsNullish(v) == v.type \in {"undefined", "null"}

\* v[k] for a v that is not nullish; the keys used here are never "length"
\* or an index, so a string has none of them
Get(v, k) ==
  IF v.type = "object" /\ k \in DOMAIN v.props THEN v.props[k] ELSE Undefined

\* the characters of the strings a dictionary can be replaced by
StringChars(s) == IF s = "x" THEN <<"x">> ELSE <<>>
IndexKey(i) == IF i = 1 THEN "0" ELSE "1"

\* the own enumerable properties an object spread {...v} copies
SpreadProps(v) ==
  CASE v.type = "object" -> v.props
    [] v.type = "string" ->
         [k \in {IndexKey(i) : i \in 1..Len(StringChars(v.str))} |->
            Str(StringChars(v.str)[CHOOSE i \in 1..Len(StringChars(v.str)) : IndexKey(i) = k])]
    [] OTHER -> NoProps

\* {...a, [k]: v}
WithProp(p, k, v) == [j \in DOMAIN p \cup {k} |-> IF j = k THEN v ELSE p[j]]

(***************************************************************************)
(* JSON.stringify / JSON.parse.  A JSON text is modelled by the value it   *)
(* denotes: stringify drops every property whose value is undefined, and   *)
(* yields no text at all for undefined itself; parse fails on a text that  *)
(* is not JSON.                                                            *)
(***************************************************************************)
RECURSIVE JsonValue(_)
JsonValue(v) ==
  IF v.type = "object"
    THEN Obj([k \in {j \in DOMAIN v.props : v.props[j].type # "undefined"} |->
                JsonValue(v.props[k])])
    ELSE v

\* a string held in local storage or handed to JSON.parse
JsonText(v) == [isJson |-> TRUE, json |-> v]
NotJsonText == [isJson |-> FALSE, json |-> Undefined]

JSONstringify(v) ==
  IF v.type = "undefined" THEN NotJsonText ELSE JsonText(JsonValue(v))
JSONparseThrows(text) == ~text.isJson
JSONparse(text) == text.json

(***************************************************************************)
(* yaml stringify / parse.  A YAML text is modelled by the value it        *)
(* denotes.  stringify writes a property whose value is undefined as null  *)
(* (yaml 1.x) or leaves it out (yaml 2.x, as JSON does); parse throws on a *)
(* malformed document, yields null for an empty one, a string for a plain  *)
(* scalar, an object for a mapping.                                        *)
(***************************************************************************)
UndefinedAs == {"null", "dropped"}

RECURSIVE YamlValue(_, _)
YamlValue(v, undefinedAs) ==
  CASE v.type = "object" ->
         Obj([k \in {j \in DOMAIN v.props :
                       v.props[j].type # "undefined" \/ undefinedAs = "null"} |->
                YamlValue(v.props[k], undefinedAs)])
    [] v.type = "undefined" -> Null
    [] OTHER -> v

\* a string handed to parse: the text of the dataset textarea, the clipboard
YamlText(v) == [isYaml |-> TRUE, yaml |-> v]
NotYamlText == [isYaml |-> FALSE, yaml |-> Undefined]
EmptyText == YamlText(Null)

stringify(v, undefinedAs) == YamlText(YamlValue(v, undefinedAs))
parseThrows(text) == ~text.isYaml
parse(text) == text.yaml

(***************************************************************************)
(* The document: four possible anchor elements, in document order, each    *)
(* with its data-tooltip-id attribute; two of them share an id and one has *)
(* an empty id.                                                            *)
(***************************************************************************)
Nodes == {"n1", "n2", "n3", "n4"}
DocumentOrder == <<"n1", "n2", "n3", "n4">>
dataset ==
  [n \in Nodes |->
     CASE n = "n1" -> "ID_A"
       [] n = "n2" -> "ID_B"
       [] n = "n3" -> ""
       [] OTHER -> "ID_B"]

Position(n) == CHOOSE i \in 1..Len(DocumentOrder) : DocumentOrder[i] = n

\* the pages the editor may first be mounted on
InitialDocuments == {{}, {"n1", "n2"}, Nodes}

getNodeTooltipId(node) == dataset[node]

\* document.querySelectorAll("[data-tooltip-id]")
querySelectorAll(doc) == SelectSeq(DocumentOrder, LAMBDA n : n \in doc)

Range(s) == {s[i] : i \in 1..Len(s)}

(***************************************************************************)
(* Program constants                                                       *)
(***************************************************************************)
\* time to live of a saved snapshot and of a preview snapshot (ms)
SaveTtl == 6 * 60 * 60 * 1000
PreviewTtl == 2 * 60 * 60 * 1000

StorageKeys == {"tooltipDictionary", "previewTooltipDataset"}

\* what localStorage.getItem returns: null (absent) or a string
NoItem == [present |-> FALSE, text |-> NotJsonText]
Item(text) == [present |-> TRUE, text |-> text]

\* {value, expiry}
Snapshot(value, expiry) ==
  Obj([k \in {"value", "expiry"} |-> IF k = "value" THEN value ELSE Num(expiry)])

\* window.alert messages
SeedAlert == "Error while parsing latest dataset"
CopyAlert == "Error while copying latest dataset"
UpdateAlert == "Error while updating latest dataset"

(***************************************************************************)
(* Inputs                                                                  *)
(***************************************************************************)
\* dictionaries the host passes as props.tooltipDictionary
DefaultDictionaries ==
  { Obj([k \in {"ID_A"} |-> Str("hello")]),
    Obj(NoProps) }

\* what the user types into a row's textarea and width input
ContentInputs == {"", "world"}
WidthInputs == {"300"}

\* what the user types into the search box
SearchInputs == {"", " B "}

\* what the user types into the "Update latest dataset" textarea: nothing,
\* the scalar x, the malformed "ID_B: [" and the mapping "ID_B: hi" (the
\* user may also paste the clipboard)
DatasetTexts ==
  { EmptyText,
    YamlText(Str("x")),
    NotYamlText,
    YamlText(Obj([k \in {"ID_B"} |-> Str("hi")])) }

\* steps by which the clock advances
TickSteps == {1, SaveTtl}

\* value.trim().toLowerCase() of the strings used as ids and search inputs
TrimLower(s) ==
  CASE s = " B " -> "b"
    [] s = "ID_A" -> "id_a"
    [] s = "ID_B" -> "id_b"
    [] OTHER -> s

\* a.includes(b) for the trimmed, lower-cased strings above
Includes(a, b) ==
  \/ b = ""
  \/ a = b
  \/ a = "id_b" /\ b = "b"

(***************************************************************************)
(* Pure functions of the component                                         *)
(***************************************************************************)
\* the comparison with its operands swapped
NowGreater_swapped(t, x) ==
  CASE x.type = "number" -> x.num > t
    [] x.type = "null" -> FALSE
    [] OTHER -> FALSE

\* Date.now() > x; an undefined x compares false, null counts as 0
NowGreater(t, x) ==
  CASE x.type = "number" -> t > x.num
    [] x.type = "null" -> TRUE
    [] OTHER -> FALSE

\* getDefaultTooltipRecord: the dictionary to seed the store with, whether
\* it is the host's object or one parsed from storage, the storage after
\* the call and the alerts it raised
getDefaultTooltipRecord(tooltipDictionary, store, t) ==
  LET fromLocalStorage == store["tooltipDictionary"]
      useDefault(st, al) ==
        [value |-> tooltipDictionary, isDefault |-> TRUE,
         storage |-> st, alerts |-> al]
  IN  IF ~fromLocalStorage.present
        THEN useDefault(store, <<>>)
      ELSE IF JSONparseThrows(fromLocalStorage.text)
        THEN useDefault(store, <<SeedAlert>>)
      ELSE
        LET parsed == JSONparse(fromLocalStorage.text)
            expiry == IF IsNullish(parsed) THEN Undefined ELSE Get(parsed, "expiry")
            isExpired == NowGreater(t, expiry)
        IN  IF ~isExpired
              THEN IF IsNullish(parsed)
                     THEN useDefault(store, <<SeedAlert>>)
                     ELSE [value |-> Get(parsed, "value"), isDefault |-> FALSE,
                           storage |-> store, alerts |-> <<>>]
              ELSE useDefault([store EXCEPT !["tooltipDictionary"] = NoItem], <<>>)

\* editedTooltips[tooltipId] and the read of .content / .width behind it
\* throw when the dictionary is undefined or null, or when the entry is null
\* (typeof null is "object")
EntryThrows(editedTooltips, tooltipId) ==
  \/ IsNullish(editedTooltips)
  \/ IsNullish(Get(editedTooltips, tooltipId))
       /\ TypeOf(Get(editedTooltips, tooltipId)) = "object"

getTooltipWidthValue(editedTooltips, tooltipId) ==
  IF TypeOf(Get(editedTooltips, tooltipId)) = "object"
    THEN Get(Get(editedTooltips, tooltipId), "width")
    ELSE Str("400")

getTooltipContent(editedTooltips, tooltipId) ==
  IF TypeOf(Get(editedTooltips, tooltipId)) = "object"
    THEN Get(Get(editedTooltips, tooltipId), "content")
    ELSE Get(editedTooltips, tooltipId)

\* {content, width}
TooltipDictionaryValue(content, width) ==
  Obj([k \in {"content", "width"} |-> IF k = "content" THEN content ELSE width])

\* {...editedTooltips, ...{[tooltipId]: {content, width}}}
setEntry(editedTooltips, tooltipId, content, width) ==
  Obj(WithProp(SpreadProps(editedTooltips), tooltipId,
               TooltipDictionaryValue(content, width)))

(***************************************************************************)
(* State                                                                   *)
(***************************************************************************)
VARIABLES
  document,        \* the anchor elements attached to the page
  classList,       \* per element: whether it has class emptyTooltipContent
  listeners,       \* per element: the listeners added to it, in order
  storage,         \* localStorage, per key
  now,             \* Date.now()
  phase,           \* "unmounted", "mounted" or "crashed"
  mounts,          \* mounts so far; the live component instance is this one
  rescans,         \* Update Context rescans so far
  cleanupScan,     \* allTooltips as the mount effect's cleanup closed over it
  allTooltips,     \* useState: the scan result
  editedTooltips,  \* useState: reference of the dictionary object
  objects,         \* the dictionary objects: 0 is props.tooltipDictionary
  editMode,        \* useState: id -> true
  searchResults,   \* useState: the rows displayed
  mode,            \* useState: the selected tab
  latestDataset,   \* useState: the parsed dataset
  datasetText,     \* the text in the dataset textarea
  searchText,      \* the text in the search box
  alerts,          \* the window.alert calls of the last event
  seeded,          \* how the mount seeded the store of the live component
  previewDataset,  \* the host: what its preview callback last read in storage
  clipboard,       \* the text on the system clipboard
  events           \* events handled so far

vars ==
  <<document, classList, listeners, storage, now, phase,
    mounts, rescans, cleanupScan, allTooltips, editedTooltips, objects,
    editMode, searchResults, mode, latestDataset, datasetText, searchText,
    alerts, seeded, previewDataset, clipboard, events>>

\* one more event is handled
Event == events < MaxEvents /\ events' = events + 1

\* the dictionary the component holds
Dictionary == objects[editedTooltips]

\* the reference a newly created dictionary object gets: one of the two
\* cells that the current dictionary does not occupy (cell 0 is the host's)
NewRef == IF editedTooltips = 1 THEN 2 ELSE 1

(***************************************************************************)
(* Helpers of the component                                                *)
(***************************************************************************)
\* indicateTooltipsWithEmptyContent: the forEach stops at the first element
\* whose content cannot be read
RECURSIVE indicateFrom(_, _, _, _)
indicateFrom(i, tooltipNodes, dict, cls) ==
  IF i > Len(tooltipNodes)
    THEN [classList |-> cls, threw |-> FALSE]
  ELSE
    LET tooltipNode == tooltipNodes[i]
        tooltipId == getNodeTooltipId(tooltipNode)
    IN  IF tooltipId = ""
          THEN indicateFrom(i + 1, tooltipNodes, dict, cls)
        ELSE IF EntryThrows(dict, tooltipId)
          THEN [classList |-> cls, threw |-> TRUE]
        ELSE IF ~Truthy(getTooltipContent(dict, tooltipId))
          THEN indicateFrom(i + 1, tooltipNodes, dict,
                 [cls EXCEPT ![tooltipNode] = @ \cup {"emptyTooltipContent"}])
        ELSE indicateFrom(i + 1, tooltipNodes, dict, cls)

\* the pass marking nothing
indicateTooltipsWithEmptyContent_none(tooltipNodes, dict, cls) ==
  [classList |-> cls, threw |-> FALSE]

indicateTooltipsWithEmptyContent(tooltipNodes, dict, cls) ==
  indicateFrom(1, tooltipNodes, dict, cls)

removeEmptyContentClass(tooltipNodes, cls) ==
  [n \in Nodes |->
     IF n \in Range(tooltipNodes) THEN cls[n] \ {"emptyTooltipContent"} ELSE cls[n]]

EventTypes == <<"click", "mouseover", "mouseout">>

\* addEventListener with a closure created by this call: fn names the call
attachEventHandlersToTooltipNodes(tooltipNodes, lst, fn) ==
  [n \in Nodes |->
     IF n \in Range(tooltipNodes)
       THEN lst[n] \o [i \in 1..3 |->
              [type |-> EventTypes[i], tooltipId |-> getNodeTooltipId(n), fn |-> fn]]
       ELSE lst[n]]

\* removeEventListener(type, f) removes the listener that is the function f
removeEventListener(ls, type, fn) ==
  SelectSeq(ls, LAMBDA l : ~(l.type = type /\ l.fn = fn))

\* removeEventListener with a closure created by this call: fn names the call
removeEventHandlersFromTooltipNodes(tooltipNodes, lst, fn) ==
  [n \in Nodes |->
     IF n \in Range(tooltipNodes)
       THEN removeEventListener(
              removeEventListener(
                removeEventListener(lst[n], "click", fn), "mouseover", fn),
              "mouseout", fn)
       ELSE lst[n]]

\* the value an editMode lookup yields
InEditMode(em, tooltipId) == tooltipId \in DOMAIN em /\ em[tooltipId]

\* the render reads the content of every displayed row (and the width of a
\* row in edit mode, which fails on the same entries)
RenderThrows(all, sr, dict) ==
  /\ Len(all) # 0
  /\ \E i \in 1..Len(sr) : EntryThrows(dict, getNodeTooltipId(sr[i]))

\* Object.is on two dictionaries: the same object, or equal primitives
SameDictionary(refA, heapA, refB, heapB) ==
  \/ refA = refB
  \/ heapA[refA].type # "object" /\ heapA[refA] = heapB[refB]

(***************************************************************************)
(* React: state after a handler -> re-render -> effects                    *)
(***************************************************************************)
\* the state the handlers of the current render see
Cur ==
  [allTooltips |-> allTooltips, editedTooltips |-> editedTooltips,
   objects |-> objects, editMode |-> editMode, searchResults |-> searchResults,
   mode |-> mode, latestDataset |-> latestDataset, datasetText |-> datasetText,
   searchText |-> searchText, storage |-> storage, alerts |-> <<>>,
   classList |-> classList, listeners |-> listeners]

\* no component, no props
NoObjects == (0 :> Undefined)

\* the component is gone and its state is dropped
Gone(ph, cls, lst, store, al) ==
  /\ phase' = ph
  /\ classList' = cls
  /\ listeners' = lst
  /\ storage' = store
  /\ alerts' = al
  /\ seeded' = "none"
  /\ previewDataset' = previewDataset
  /\ clipboard' = clipboard
  /\ cleanupScan' = <<>>
  /\ allTooltips' = <<>>
  /\ editedTooltips' = 0
  /\ objects' = NoObjects
  /\ editMode' = NoProps
  /\ searchResults' = <<>>
  /\ mode' = "edit"
  /\ latestDataset' = Str("")
  /\ datasetText' = EmptyText
  /\ searchText' = ""

\* cleanup, as the mount effect closed over it: fn names the closures the
\* removal creates
cleanup(cls, lst, fn) ==
  [listeners |-> removeEventHandlersFromTooltipNodes(cleanupScan, lst, fn),
   classList |-> removeEmptyContentClass(cleanupScan, cls)]

FreshFn == <<mounts, rescans + 1>>

\* an error thrown while rendering or in an effect unmounts the component
Crash(cls, lst, store, al) ==
  LET c == cleanup(cls, lst, FreshFn)
  IN  Gone("crashed", c.classList, c.listeners, store, al)

\* the re-render after a handler left the state s, and the effects after it
Commit(s) ==
  LET seed == getDefaultTooltipRecord(objects[0], s.storage, now)
      dict == s.objects[s.editedTooltips]
      al == s.alerts \o seed.alerts
      depsChanged ==
        ~SameDictionary(s.editedTooltips, s.objects, editedTooltips, objects)
      ind == IF depsChanged
               THEN indicateTooltipsWithEmptyContent(s.allTooltips, dict, s.classList)
               ELSE [classList |-> s.classList, threw |-> FALSE]
  IN  IF RenderThrows(s.allTooltips, s.searchResults, dict)
        THEN Crash(s.classList, s.listeners, seed.storage, al)
      ELSE IF ind.threw
        THEN Crash(ind.classList, s.listeners, seed.storage, al)
      ELSE
        /\ phase' = phase
        /\ classList' = ind.classList
        /\ listeners' = s.listeners
        /\ storage' = seed.storage
        /\ alerts' = al
        /\ seeded' = seeded
        /\ previewDataset' = previewDataset
        /\ clipboard' = clipboard
        /\ cleanupScan' = cleanupScan
        /\ allTooltips' = s.allTooltips
        /\ editedTooltips' = s.editedTooltips
        /\ objects' = [r \in {0, s.editedTooltips} |-> s.objects[r]]
        /\ editMode' = s.editMode
        /\ searchResults' = s.searchResults
        /\ mode' = s.mode
        /\ latestDataset' = s.latestDataset
        /\ datasetText' = s.datasetText
        /\ searchText' = s.searchText

(***************************************************************************)
(* Initial state: the page before the host mounts the editor               *)
(***************************************************************************)
\* what an earlier session may have left under key tooltipDictionary
InitialItems ==
  { NoItem,
    Item(NotJsonText),
    Item(JsonText(Obj(NoProps))),
    Item(JSONstringify(Snapshot(
      Obj([k \in {"ID_B"} |-> TooltipDictionaryValue(Str("saved"), Str("200"))]), 0))) }

Init ==
  /\ document \in InitialDocuments
  /\ classList = [n \in Nodes |-> {}]
  /\ listeners = [n \in Nodes |-> <<>>]
  /\ storage \in {[k \in StorageKeys |-> IF k = "tooltipDictionary" THEN i ELSE NoItem] :
                    i \in InitialItems}
  /\ now = 0
  /\ phase = "unmounted"
  /\ mounts = 0
  /\ rescans = 0
  /\ cleanupScan = <<>>
  /\ allTooltips = <<>>
  /\ editedTooltips = 0
  /\ objects = NoObjects
  /\ editMode = NoProps
  /\ searchResults = <<>>
  /\ mode = "edit"
  /\ latestDataset = Str("")
  /\ datasetText = EmptyText
  /\ searchText = ""
  /\ alerts = <<>>
  /\ seeded = "none"
  /\ previewDataset = NoItem
  /\ clipboard = EmptyText
  /\ events = 0

(***************************************************************************)
(* The host and the environment                                            *)
(***************************************************************************)
\* which branch of getDefaultTooltipRecord a seed took
SeedOutcome(seed, store) ==
  CASE ~seed.isDefault -> "snapshot"
    [] seed.alerts # <<>> -> "malformed"
    [] seed.storage # store -> "expired"
    [] OTHER -> "default"

\* the host renders <TooltipEditor tooltipDictionary={d}/>: first render,
\* then both effects
Mount(d) ==
  /\ Event
  /\ phase = "unmounted"
  /\ LET all == querySelectorAll(document)
         seed == getDefaultTooltipRecord(d, storage, now)
         ref == IF seed.isDefault THEN 0 ELSE 1
         heap == IF seed.isDefault THEN (0 :> d) ELSE (0 :> d) @@ (1 :> seed.value)
         ind == indicateTooltipsWithEmptyContent(all, heap[ref], classList)
     IN  /\ mounts' = mounts + 1
         /\ UNCHANGED <<document, now, rescans>>
         /\ IF RenderThrows(all, all, heap[ref]) \/ ind.threw
              THEN Gone("crashed", classList, listeners, seed.storage, seed.alerts)
              ELSE /\ phase' = "mounted"
                   /\ classList' = ind.classList
                   /\ listeners' = attachEventHandlersToTooltipNodes(
                                     all, listeners, <<mounts + 1, rescans>>)
                   /\ storage' = seed.storage
                   /\ alerts' = seed.alerts
                   /\ seeded' = SeedOutcome(seed, storage)
                   /\ previewDataset' = previewDataset
                   /\ clipboard' = clipboard
                   /\ cleanupScan' = all
                   /\ allTooltips' = all
                   /\ editedTooltips' = ref
                   /\ objects' = heap
                   /\ editMode' = NoProps
                   /\ searchResults' = all
                   /\ mode' = "edit"
                   /\ latestDataset' = Str("")
                   /\ datasetText' = EmptyText
                   /\ searchText' = ""

\* the host removes the editor: React runs the mount effect's cleanup
Unmount ==
  /\ Event
  /\ phase = "mounted"
  /\ LET c == cleanup(classList, listeners, FreshFn)
     IN  Gone("unmounted", c.classList, c.listeners, storage, <<>>)
  /\ UNCHANGED <<document, now, mounts, rescans>>

\* time passes
Tick(d) ==
  /\ Event
  /\ now + d <= SaveTtl + MaxLate
  /\ now' = now + d
  /\ UNCHANGED <<document, classList, listeners, storage,
                 phase, mounts, rescans, cleanupScan, allTooltips,
                 editedTooltips, objects, editMode, searchResults, mode,
                 latestDataset, datasetText, searchText, alerts, seeded, previewDataset, clipboard>>

\* the host page renders one more tooltip anchor, after those it has
AddNode(n) ==
  /\ Event
  /\ n \notin document
  /\ \A m \in Nodes \ document : Position(n) <= Position(m)
  /\ document' = document \cup {n}
  /\ UNCHANGED <<classList, listeners, storage, now,
                 phase, mounts, rescans, cleanupScan, allTooltips,
                 editedTooltips, objects, editMode, searchResults, mode,
                 latestDataset, datasetText, searchText, alerts, seeded, previewDataset, clipboard>>

(***************************************************************************)
(* Events on the page                                                      *)
(***************************************************************************)
\* the listeners of one type on an element that belong to the live component
LiveListeners(n, type) ==
  SelectSeq(listeners[n], LAMBDA l : l.type = type /\ l.fn[1] = mounts)

\* the click handler merging the id into the edit-mode map
ClickAnchor_merge(n) ==
  /\ Event
  /\ phase = "mounted"
  /\ n \in document
  /\ LiveListeners(n, "click") # <<>>
  /\ LET ls == LiveListeners(n, "click")
         tooltipId == ls[Len(ls)].tooltipId
     IN  Commit([Cur EXCEPT !.editMode = (tooltipId :> TRUE) @@ editMode])
  /\ UNCHANGED <<document, now, mounts, rescans>>

\* a click on an anchor: each click listener calls handleTooltipNodeClick
\* with the id it captured; a listener of a component that is gone sets the
\* state of nothing
ClickAnchor(n) ==
  /\ Event
  /\ phase = "mounted"
  /\ n \in document
  /\ LiveListeners(n, "click") # <<>>
  /\ LET ls == LiveListeners(n, "click")
         tooltipId == ls[Len(ls)].tooltipId
     IN  Commit([Cur EXCEPT !.editMode = (tooltipId :> TRUE)])
  /\ UNCHANGED <<document, now, mounts, rescans>>

(***************************************************************************)
(* Events on the editor                                                    *)
(***************************************************************************)
\* the rows are displayed on the "edit" tab when the scan is not empty
RowShown(i) ==
  /\ phase = "mounted"
  /\ mode = "edit"
  /\ Len(allTooltips) # 0
  /\ i \in 1..Len(searchResults)

\* what an input shows for a value: undefined shows as the empty text
Shown(v) == IF v.type = "string" THEN v.str ELSE ""

\* the Edit button of a row that is not in edit mode
EditRow(i) ==
  /\ Event
  /\ RowShown(i)
  /\ ~InEditMode(editMode, getNodeTooltipId(searchResults[i]))
  /\ Commit([Cur EXCEPT !.editMode = (getNodeTooltipId(searchResults[i]) :> TRUE)])
  /\ UNCHANGED <<document, now, mounts, rescans>>

\* the textarea handler writing the entry into the current dictionary object
ChangeContent_inPlace(i, changedValue) ==
  /\ Event
  /\ RowShown(i)
  /\ LET tooltipId == getNodeTooltipId(searchResults[i])
     IN  /\ InEditMode(editMode, tooltipId)
         /\ changedValue # Shown(getTooltipContent(Dictionary, tooltipId))
         /\ Commit([Cur EXCEPT
                      !.objects = [objects EXCEPT ![editedTooltips] =
                                     setEntry(Dictionary, tooltipId,
                                       Str(changedValue),
                                       getTooltipWidthValue(Dictionary, tooltipId))]])
  /\ UNCHANGED <<document, now, mounts, rescans>>

\* onChange of the textarea of a row in edit mode
ChangeContent(i, changedValue) ==
  /\ Event
  /\ RowShown(i)
  /\ LET tooltipId == getNodeTooltipId(searchResults[i])
     IN  /\ InEditMode(editMode, tooltipId)
         /\ changedValue # Shown(getTooltipContent(Dictionary, tooltipId))
         /\ Commit([Cur EXCEPT
                      !.editedTooltips = NewRef,
                      !.objects = (NewRef :> setEntry(Dictionary, tooltipId,
                                      Str(changedValue),
                                      getTooltipWidthValue(Dictionary, tooltipId)))
                                  @@ objects])
  /\ UNCHANGED <<document, now, mounts, rescans>>

\* onChange of the width input of a row in edit mode
ChangeWidth(i, changedValue) ==
  /\ Event
  /\ RowShown(i)
  /\ LET tooltipId == getNodeTooltipId(searchResults[i])
         tooltipContent == getTooltipContent(Dictionary, tooltipId)
     IN  /\ InEditMode(editMode, tooltipId)
         /\ changedValue # Shown(getTooltipWidthValue(Dictionary, tooltipId))
         /\ Commit([Cur EXCEPT
                      !.editedTooltips = NewRef,
                      !.objects = (NewRef :> setEntry(Dictionary, tooltipId,
                                      tooltipContent, Str(changedValue)))
                                  @@ objects])
  /\ UNCHANGED <<document, now, mounts, rescans>>

\* the Update Context button
updateContext ==
  /\ Event
  /\ phase = "mounted"
  /\ mode = "edit"
  /\ rescans' = rescans + 1
  /\ LET updatedList == querySelectorAll(document)
         ind == indicateTooltipsWithEmptyContent(updatedList, Dictionary, classList)
     IN  Commit([Cur EXCEPT
                   !.allTooltips = updatedList,
                   !.searchResults = updatedList,
                   !.listeners = attachEventHandlersToTooltipNodes(
                                   updatedList, listeners, <<mounts, rescans + 1>>),
                   !.classList = ind.classList])
  /\ UNCHANGED <<document, now, mounts>>

\* the host's setPreviewDatasetFromLocalStorage: it reads the preview key
setPreviewDatasetFromLocalStorage(store) == store["previewTooltipDataset"]

\* the Preview Tooltips button calling the host before it writes
Preview_callbackFirst ==
  /\ Event
  /\ phase = "mounted"
  /\ mode = "edit"
  /\ storage' = [storage EXCEPT !["previewTooltipDataset"] =
                   Item(JSONstringify(Snapshot(Dictionary, now + PreviewTtl)))]
  /\ previewDataset' = setPreviewDatasetFromLocalStorage(storage)
  /\ alerts' = <<>>
  /\ UNCHANGED <<document, classList, listeners, now,
                 phase, mounts, rescans, cleanupScan, allTooltips,
                 editedTooltips, objects, editMode, searchResults, mode,
                 latestDataset, datasetText, searchText, seeded, clipboard>>

\* the Preview Tooltips button: the write, then the host callback
Preview ==
  /\ Event
  /\ phase = "mounted"
  /\ mode = "edit"
  /\ storage' = [storage EXCEPT !["previewTooltipDataset"] =
                   Item(JSONstringify(Snapshot(Dictionary, now + PreviewTtl)))]
  /\ previewDataset' = setPreviewDatasetFromLocalStorage(storage')
  /\ alerts' = <<>>
  /\ UNCHANGED <<document, classList, listeners, now,
                 phase, mounts, rescans, cleanupScan, allTooltips,
                 editedTooltips, objects, editMode, searchResults, mode,
                 latestDataset, datasetText, searchText, seeded, clipboard>>

\* the Copy to clipboard button
Copy ==
  /\ Event
  /\ phase = "mounted"
  /\ mode = "edit"
  /\ Len(allTooltips) # 0
  /\ \E undefinedAs \in UndefinedAs : clipboard' = stringify(Dictionary, undefinedAs)
  /\ alerts' = <<>>
  /\ UNCHANGED <<document, classList, listeners, storage, now,
                 phase, mounts, rescans, cleanupScan, allTooltips,
                 editedTooltips, objects, editMode, searchResults, mode,
                 latestDataset, datasetText, searchText, seeded, previewDataset>>

\* the Save button writing the host's dictionary instead of the edited one
Save_props ==
  /\ Event
  /\ phase = "mounted"
  /\ mode = "edit"
  /\ Len(allTooltips) # 0
  /\ storage' = [storage EXCEPT !["tooltipDictionary"] =
                   Item(JSONstringify(Snapshot(objects[0], now + SaveTtl)))]
  /\ alerts' = <<>>
  /\ UNCHANGED <<document, classList, listeners, now,
                 phase, mounts, rescans, cleanupScan, allTooltips,
                 editedTooltips, objects, editMode, searchResults, mode,
                 latestDataset, datasetText, searchText, seeded, previewDataset, clipboard>>

\* the Save button
Save ==
  /\ Event
  /\ phase = "mounted"
  /\ mode = "edit"
  /\ Len(allTooltips) # 0
  /\ storage' = [storage EXCEPT !["tooltipDictionary"] =
                   Item(JSONstringify(Snapshot(Dictionary, now + SaveTtl)))]
  /\ alerts' = <<>>
  /\ UNCHANGED <<document, classList, listeners, now,
                 phase, mounts, rescans, cleanupScan, allTooltips,
                 editedTooltips, objects, editMode, searchResults, mode,
                 latestDataset, datasetText, searchText, seeded, previewDataset, clipboard>>

\* a click on the other tab
setMode(id) ==
  /\ Event
  /\ phase = "mounted"
  /\ id # mode
  /\ Commit([Cur EXCEPT !.mode = id])
  /\ UNCHANGED <<document, now, mounts, rescans>>

\* the dataset textarea handler storing whatever the parse left, silently
LatestDatasetChange_silent(value) ==
  /\ Event
  /\ phase = "mounted"
  /\ mode = "latest"
  /\ value # datasetText
  /\ Commit([Cur EXCEPT !.datasetText = value, !.latestDataset = parse(value)])
  /\ UNCHANGED <<document, now, mounts, rescans>>

\* onChange of the dataset textarea
LatestDatasetChange(value) ==
  /\ Event
  /\ phase = "mounted"
  /\ mode = "latest"
  /\ value # datasetText
  /\ IF parseThrows(value)
       THEN /\ datasetText' = value
            /\ alerts' = <<CopyAlert>>
            /\ UNCHANGED <<classList, listeners, storage,
                           phase, cleanupScan, allTooltips, editedTooltips,
                           objects, editMode, searchResults, mode,
                           latestDataset, searchText, seeded, previewDataset, clipboard>>
     ELSE IF parse(value).type # "object" /\ parse(value) = latestDataset
       THEN /\ datasetText' = value
            /\ alerts' = <<>>
            /\ UNCHANGED <<classList, listeners, storage,
                           phase, cleanupScan, allTooltips, editedTooltips,
                           objects, editMode, searchResults, mode,
                           latestDataset, searchText, seeded, previewDataset, clipboard>>
     ELSE Commit([Cur EXCEPT !.datasetText = value,
                             !.latestDataset = parse(value)])
  /\ UNCHANGED <<document, now, mounts, rescans>>

\* the Update button
Update ==
  /\ Event
  /\ phase = "mounted"
  /\ mode = "latest"
  /\ LET jsStr == JSONstringify(latestDataset)
     IN  IF JSONparseThrows(jsStr)
           THEN /\ alerts' = <<UpdateAlert>>
                /\ UNCHANGED <<classList, listeners, storage,
                               phase, cleanupScan, allTooltips, editedTooltips,
                               objects, editMode, searchResults, mode,
                               latestDataset, datasetText, searchText, seeded, previewDataset, clipboard>>
         ELSE
           LET toJson == JSONparse(jsStr)
               heap == (NewRef :> toJson) @@ objects
           IN  IF SameDictionary(NewRef, heap, editedTooltips, objects)
                 THEN /\ alerts' = <<>>
                      /\ UNCHANGED <<classList, listeners,
                                     storage, phase, cleanupScan, allTooltips,
                                     editedTooltips, objects, editMode,
                                     searchResults, mode, latestDataset,
                                     datasetText, searchText, seeded, previewDataset, clipboard>>
                 ELSE Commit([Cur EXCEPT !.editedTooltips = NewRef,
                                         !.objects = heap])
  /\ UNCHANGED <<document, now, mounts, rescans>>

\* onChange of the search box
filterDataForSearch(value) ==
  /\ Event
  /\ phase = "mounted"
  /\ value # searchText
  /\ LET filtered ==
           SelectSeq(allTooltips, LAMBDA node :
             Includes(TrimLower(getNodeTooltipId(node)), TrimLower(value)))
     IN  Commit([Cur EXCEPT !.searchText = value, !.searchResults = filtered])
  /\ UNCHANGED <<document, now, mounts, rescans>>

\* the close icon: the host's onClose, then the preview snapshot is removed
Close ==
  /\ Event
  /\ phase = "mounted"
  /\ storage' = [storage EXCEPT !["previewTooltipDataset"] = NoItem]
  /\ alerts' = <<>>
  /\ UNCHANGED <<document, classList, listeners, now,
                 phase, mounts, rescans, cleanupScan, allTooltips,
                 editedTooltips, objects, editMode, searchResults, mode,
                 latestDataset, datasetText, searchText, seeded, previewDataset, clipboard>>

(***************************************************************************)
(* Specification                                                           *)
(***************************************************************************)
Next ==
  \/ \E d \in DefaultDictionaries : Mount(d)
  \/ Unmount
  \/ \E d \in TickSteps : Tick(d)
  \/ \E n \in Nodes : AddNode(n)
  \/ \E i \in 1..Cardinality(Nodes) : EditRow(i)
  \/ \E n \in Nodes : ClickAnchor(n)
  \/ \E i \in 1..Cardinality(Nodes), v \in ContentInputs : ChangeContent(i, v)
  \/ \E i \in 1..Cardinality(Nodes), v \in WidthInputs : ChangeWidth(i, v)
  \/ updateContext
  \/ Preview
  \/ Copy
  \/ Save
  \/ \E id \in {"edit", "latest"} : setMode(id)
  \/ \E v \in DatasetTexts \cup {clipboard} : LatestDatasetChange(v)
  \/ Update
  \/ \E v \in SearchInputs : filterDataForSearch(v)
  \/ Close

Spec == Init /\ [][Next]_vars

(***************************************************************************)
(* Export and import: the editor as it is after a mount on the page with   *)
(* the anchors ID_A and ID_B and the opening of one row, and from there    *)
(* the edits, the copy to the clipboard, the paste of the clipboard into   *)
(* the dataset textarea and the Update.                                    *)
(***************************************************************************)
InitRoundTrip ==
  \E d \in DefaultDictionaries, tooltipId \in {"ID_A", "ID_B"} :
    LET all == querySelectorAll({"n1", "n2"})
    IN  /\ document = {"n1", "n2"}
        /\ classList = indicateTooltipsWithEmptyContent(
                         all, d, [n \in Nodes |-> {}]).classList
        /\ listeners = attachEventHandlersToTooltipNodes(
                         all, [n \in Nodes |-> <<>>], <<1, 0>>)
        /\ storage = [k \in StorageKeys |-> NoItem]
        /\ now = 0
        /\ phase = "mounted"
        /\ mounts = 1
        /\ rescans = 0
        /\ cleanupScan = all
        /\ allTooltips = all
        /\ editedTooltips = 0
        /\ objects = (0 :> d)
        /\ editMode = (tooltipId :> TRUE)
        /\ searchResults = all
        /\ mode = "edit"
        /\ latestDataset = Str("")
        /\ datasetText = EmptyText
        /\ searchText = ""
        /\ alerts = <<>>
        /\ seeded = "default"
        /\ previewDataset = NoItem
        /\ clipboard = EmptyText
        /\ events = 0

NextRoundTrip ==
  \/ \E i \in 1..2 : EditRow(i)
  \/ \E i \in 1..2, v \in ContentInputs : ChangeContent(i, v)
  \/ \E i \in 1..2, v \in WidthInputs : ChangeWidth(i, v)
  \/ Copy
  \/ \E id \in {"edit", "latest"} : setMode(id)
  \/ LatestDatasetChange(clipboard)
  \/ Update

SpecRoundTrip == InitRoundTrip /\ [][NextRoundTrip]_vars

(***************************************************************************)
(* Properties                                                              *)
(***************************************************************************)
TooltipIds == {"ID_A", "ID_B", "ID_C", ""}

HasEmptyMarker(n) == "emptyTooltipContent" \in classList[n]

\* C1: after a dictionary change and the re-render that follows it, no
\* scanned element whose resolved content is non-empty carries the
\* empty-content marker (an id edited from empty to "world" loses it).
C1_MarkerFollowsContent ==
  phase = "mounted" =>
    \A i \in 1..Len(allTooltips) :
      Truthy(getTooltipContent(Dictionary, getNodeTooltipId(allTooltips[i])))
        => ~HasEmptyMarker(allTooltips[i])

\* the value stored under key tooltipDictionary, when it is a snapshot
StoredText(store) == store["tooltipDictionary"].text
HasSnapshot(store) ==
  /\ store["tooltipDictionary"].present
  /\ ~JSONparseThrows(StoredText(store))
  /\ JSONparse(StoredText(store)).type = "object"
  /\ Get(JSONparse(StoredText(store)), "expiry").type = "number"
StoredExpiry(store) == Get(JSONparse(StoredText(store)), "expiry").num
StoredValue(store) == Get(JSONparse(StoredText(store)), "value")

\* a step in which the host mounts the editor
MountStep == phase = "unmounted" /\ phase' # "unmounted"

\* the mounted store holds the host's own dictionary object and the
\* snapshot is gone
SeededWithDefault ==
  /\ phase' = "mounted"
  /\ editedTooltips' = 0
  /\ objects'[0] \in DefaultDictionaries
  /\ ~storage'["tooltipDictionary"].present

\* C2 as stated: a mount that finds a snapshot whose expiry <= now seeds the
\* store with the supplied default and removes the snapshot.
C2_ExpiredAtOrBeforeNow ==
  [][(MountStep /\ HasSnapshot(storage) /\ StoredExpiry(storage) <= now)
       => SeededWithDefault]_vars

\* C2 as amended: a mount that finds a snapshot whose expiry < now seeds the
\* store with the supplied default and removes the snapshot.
C2_ExpiredBeforeNow ==
  [][(MountStep /\ HasSnapshot(storage) /\ StoredExpiry(storage) < now)
       => SeededWithDefault]_vars

C2_Witness ==
  /\ phase = "mounted"
  /\ seeded = "expired"
  /\ editedTooltips = 0
  /\ ~storage["tooltipDictionary"].present

\* C3: a change of the dataset textarea to a text that does not parse as
\* YAML raises the alert and leaves the dictionary (and the parsed dataset)
\* as they were.
C3_InvalidYamlLeavesDictionary ==
  [][(phase = "mounted" /\ datasetText' # datasetText /\ parseThrows(datasetText'))
       => /\ alerts' = <<CopyAlert>>
          /\ phase' = "mounted"
          /\ editedTooltips' = editedTooltips
          /\ objects' = objects
          /\ latestDataset' = latestDataset]_vars

C3_Witness ==
  /\ phase = "mounted"
  /\ parseThrows(datasetText)
  /\ alerts = <<CopyAlert>>
  /\ Dictionary \in DefaultDictionaries

\* a mapping from tooltip id to a string or a record
IsTooltipDictionary(v) ==
  /\ v.type = "object"
  /\ \A k \in DOMAIN v.props : v.props[k].type \in {"string", "object"}

\* C4: the component never crashes, and in every state of the mounted
\* editor editedTooltips is a mapping from tooltip id to string or record.
C4_AlwaysADictionary ==
  /\ phase # "crashed"
  /\ phase = "mounted" => IsTooltipDictionary(Dictionary)

\* C5: for an id absent from the dictionary getContent is "" and getWidth
\* is "400"; for a plain string entry they are that string and "400"; for a
\* record they are its content and width fields.
C5_ContentAndWidth ==
  (phase = "mounted" /\ Dictionary.type = "object") =>
    \A id \in TooltipIds :
      LET entry == Get(Dictionary, id)
      IN  /\ id \notin DOMAIN Dictionary.props =>
               /\ getTooltipContent(Dictionary, id) = Str("")
               /\ getTooltipWidthValue(Dictionary, id) = Str("400")
          /\ entry.type = "string" =>
               /\ getTooltipContent(Dictionary, id) = entry
               /\ getTooltipWidthValue(Dictionary, id) = Str("400")
          /\ entry.type = "object" =>
               /\ getTooltipContent(Dictionary, id) = Get(entry, "content")
               /\ getTooltipWidthValue(Dictionary, id) = Get(entry, "width")

\* a step of the mounted editor, on its "edit" tab, that changes what the
\* dictionary holds: an edit of a row's content or width
EditStep ==
  /\ phase = "mounted" /\ phase' = "mounted"
  /\ mode = "edit"
  /\ Dictionary' # Dictionary

\* C6: an edit of a row yields a new dictionary object; the previous object
\* (the host's own, when the store was seeded with it) keeps its entries,
\* and the new one differs from the previous in the edited id only.
C6_EditCopiesOnWrite ==
  [][EditStep =>
       /\ editedTooltips' # editedTooltips
       /\ objects'[0] = objects[0]
       /\ editedTooltips \in DOMAIN objects' =>
            objects'[editedTooltips] = objects[editedTooltips]
       /\ Dictionary'.type = "object"
       /\ \E id \in TooltipIds :
            /\ id \in DOMAIN Dictionary'.props
            /\ Dictionary'.props[id].type = "object"
            /\ DOMAIN Dictionary'.props \ {id} = DOMAIN SpreadProps(Dictionary) \ {id}
            /\ \A k \in DOMAIN Dictionary'.props \ {id} :
                 Dictionary'.props[k] = SpreadProps(Dictionary)[k]]_vars

C6_Witness ==
  /\ phase = "mounted"
  /\ editedTooltips # 0
  /\ objects[0] = Obj([k \in {"ID_A"} |-> Str("hello")])
  /\ Dictionary.type = "object"
  /\ DOMAIN Dictionary.props = {"ID_A", "ID_B"}
  /\ Get(Dictionary, "ID_A") = Str("hello")
  /\ Get(Dictionary, "ID_B") = TooltipDictionaryValue(Str("world"), Str("400"))

\* two values that read alike: equal once the properties whose value is
\* undefined are left out
ReadsAlike(a, b) == JsonValue(a) = JsonValue(b)

\* a step that writes a value under key tooltipDictionary
SaveStep ==
  /\ storage'["tooltipDictionary"] # storage["tooltipDictionary"]
  /\ storage'["tooltipDictionary"].present

\* C7: Save writes {value: the dictionary, expiry: now + 6h} under key
\* tooltipDictionary, and a mount at a time not later than a snapshot's
\* expiry seeds the store with a dictionary equal to the snapshot's value,
\* whatever default the host supplies, and keeps the snapshot.
C7_SaveThenSeed ==
  [][/\ SaveStep =>
          /\ HasSnapshot(storage')
          /\ StoredExpiry(storage') = now + SaveTtl
          /\ ReadsAlike(StoredValue(storage'), Dictionary)
          /\ storage'["previewTooltipDataset"] = storage["previewTooltipDataset"]
     /\ (MountStep /\ HasSnapshot(storage) /\ now <= StoredExpiry(storage)) =>
          /\ storage' = storage
          /\ phase' = "mounted" =>
               /\ editedTooltips' # 0
               /\ ReadsAlike(Dictionary', StoredValue(storage))]_vars

\* a second mount seeded from what the first one saved: a dictionary with
\* an edited entry, which differs from the default the host supplies
C7_Witness ==
  /\ phase = "mounted"
  /\ mounts = 2
  /\ seeded = "snapshot"
  /\ HasSnapshot(storage)
  /\ StoredExpiry(storage) >= SaveTtl
  /\ ReadsAlike(Dictionary, StoredValue(storage))
  /\ Get(Dictionary, "ID_B").type = "object"
  /\ Dictionary # objects[0]

\* the rows displayed that are in edit mode
RowsInEditMode ==
  IF phase = "mounted" /\ Len(allTooltips) # 0
    THEN {i \in 1..Len(searchResults) :
            InEditMode(editMode, getNodeTooltipId(searchResults[i]))}
    ELSE {}

\* C8 as stated: at most one row of the editor is in edit mode.
C8_AtMostOneRow == Cardinality(RowsInEditMode) <= 1

\* C8 as amended: at most one tooltip id is in edit mode (the edit-mode map
\* has at most one key), so the rows in edit mode are those of one id.
C8_AtMostOneId ==
  /\ Cardinality(DOMAIN editMode) <= 1
  /\ \A i, j \in RowsInEditMode :
       getNodeTooltipId(searchResults[i]) = getNodeTooltipId(searchResults[j])

\* the row of ID_A is open, the rows of ID_B and of the empty id are not
C8_Witness ==
  /\ phase = "mounted"
  /\ Len(searchResults) = 4
  /\ DOMAIN editMode = {"ID_A"}
  /\ RowsInEditMode = {1}
  /\ events >= 3

\* C9: after the editor unmounts no listener it installed remains on any
\* element.
C9_NoListenerAfterUnmount ==
  (phase = "unmounted" /\ mounts > 0) =>
    \A n \in Nodes : listeners[n] = <<>>

\* C10: an element whose marker attribute is empty gets no listener and no
\* empty-content marker, and the edit-mode map never has the empty string
\* as a key.
C10_EmptyIdNotWired ==
  /\ \A n \in Nodes :
       getNodeTooltipId(n) = "" => (listeners[n] = <<>> /\ ~HasEmptyMarker(n))
  /\ "" \notin DOMAIN editMode

\* the stored value parses to a snapshot {value, expiry} whose value is a
\* dictionary
CarriesDictionary(store) ==
  /\ HasSnapshot(store)
  /\ IsTooltipDictionary(StoredValue(store))

\* C11: a mount that finds under key tooltipDictionary a value that cannot
\* be parsed to a snapshot carrying a dictionary raises an alert and seeds
\* the store with the supplied default dictionary.
C11_MalformedAlertsAndDefaults ==
  [][(MountStep /\ storage["tooltipDictionary"].present /\ ~CarriesDictionary(storage))
       => /\ alerts' # <<>>
          /\ phase' = "mounted"
          /\ editedTooltips' = 0
          /\ objects'[0] \in DefaultDictionaries]_vars

\* a step in which the editor scans the page: a mount or an Update Context
ScanStep == MountStep \/ rescans' # rescans

\* C12: after a mount and after an Update Context every scanned element
\* with a non-empty id whose content in the dictionary is falsy carries the
\* empty-content marker; and no step puts the marker on an element unless
\* it is scanned, has a non-empty id and its content is falsy, so an element
\* whose content was non-empty throughout never gets it.
C12_MarkedWhenEmpty ==
  [][phase' = "mounted" =>
       /\ ScanStep =>
            \A i \in 1..Len(allTooltips') :
              (/\ getNodeTooltipId(allTooltips'[i]) # ""
               /\ ~Truthy(getTooltipContent(Dictionary', getNodeTooltipId(allTooltips'[i]))))
                => "emptyTooltipContent" \in classList'[allTooltips'[i]]
       /\ \A n \in Nodes :
            ("emptyTooltipContent" \in classList'[n] /\ ~HasEmptyMarker(n))
              => /\ n \in Range(allTooltips')
                 /\ getNodeTooltipId(n) # ""
                 /\ ~Truthy(getTooltipContent(Dictionary', getNodeTooltipId(n)))]_vars

\* default {ID_A: "hello"}, anchors ID_A and ID_B, after the mount and one
\* Update Context: ID_B is marked, ID_A is not
C12_Witness ==
  /\ phase = "mounted"
  /\ mounts = 1
  /\ rescans = 1
  /\ editedTooltips = 0
  /\ Dictionary = Obj([k \in {"ID_A"} |-> Str("hello")])
  /\ allTooltips = <<"n1", "n2">>
  /\ HasEmptyMarker("n2")
  /\ ~HasEmptyMarker("n1")

\* a press of Preview Tooltips: the only step in which the host's callback
\* runs or the preview key is written
PreviewStep ==
  \/ previewDataset' # previewDataset
  \/ /\ storage'["previewTooltipDataset"] # storage["previewTooltipDataset"]
     /\ storage'["previewTooltipDataset"].present

\* C13: Preview writes {value: the dictionary, expiry: now + 2h} under key
\* previewTooltipDataset before it calls the host, so what the host reads
\* under that key inside the callback is the snapshot just written, whose
\* value is the dictionary as it was when Preview was pressed.
C13_PreviewWritesBeforeCallback ==
  [][PreviewStep =>
       LET written == storage'["previewTooltipDataset"]
       IN  /\ written.present
           /\ ~JSONparseThrows(written.text)
           /\ Get(JSONparse(written.text), "expiry") = Num(now + PreviewTtl)
           /\ ReadsAlike(Get(JSONparse(written.text), "value"), Dictionary)
           /\ previewDataset' = written
           /\ storage'["tooltipDictionary"] = storage["tooltipDictionary"]]_vars

\* the host has read a preview of a dictionary with an edited entry
C13_Witness ==
  /\ phase = "mounted"
  /\ previewDataset.present
  /\ previewDataset = storage["previewTooltipDataset"]
  /\ Get(JSONparse(previewDataset.text), "value") = JsonValue(Dictionary)
  /\ Get(Dictionary, "ID_A") = TooltipDictionaryValue(Str("world"), Str("400"))

\* the state of the component, and a step of the mounted editor that
\* changes it: an edit, a click, a search, an Update Context, a dataset
\* import, a change of tab (or the unmount)
ComponentState ==
  <<allTooltips, editedTooltips, objects, editMode, searchResults, mode,
    latestDataset, datasetText, searchText, rescans>>
EditorStep == phase = "mounted" /\ ComponentState' # ComponentState

\* a step that removes the preview snapshot: a press of the close icon
CloseStep ==
  /\ storage["previewTooltipDataset"].present
  /\ ~storage'["previewTooltipDataset"].present

\* the saved snapshot has expired and the step removes it
ExpiredRemoved ==
  /\ HasSnapshot(storage)
  /\ StoredExpiry(storage) < now
  /\ ~storage'["tooltipDictionary"].present

\* what C14 says of Save, Preview and Close: each touches its own key only
OwnKeyOnly ==
  /\ SaveStep => storage'["previewTooltipDataset"] = storage["previewTooltipDataset"]
  /\ PreviewStep => storage'["tooltipDictionary"] = storage["tooltipDictionary"]
  /\ CloseStep => storage'["tooltipDictionary"] = storage["tooltipDictionary"]
  /\ storage'["previewTooltipDataset"] # storage["previewTooltipDataset"]
       => /\ PreviewStep \/ CloseStep
          /\ ComponentState' = ComponentState
  /\ storage'["tooltipDictionary"] # storage["tooltipDictionary"]
       => SaveStep \/ ExpiredRemoved

\* C14: an edit, a click, a search, an Update Context or a
\* dataset import leaves local storage as it is; Save, Preview and Close
\* touch their own key only.
C14_OnlyExplicitActionsWrite ==
  [][/\ EditorStep => storage' = storage
     /\ OwnKeyOnly]_vars

\* the text on the clipboard is an export of the dictionary and it has
\* been pasted into the dataset textarea
ExportPasted ==
  /\ phase = "mounted"
  /\ mode = "latest"
  /\ Dictionary.type = "object"
  /\ \E undefinedAs \in UndefinedAs : clipboard = stringify(Dictionary, undefinedAs)
  /\ datasetText = clipboard
  /\ latestDataset = parse(clipboard)

\* C15: when the export of a dictionary D built by content and width edits
\* has been pasted into the dataset textarea, a press of Update installs a
\* dictionary that equals D (up to properties whose value is undefined).
C15_ExportImportRoundTrip ==
  [][(ExportPasted /\ Update) =>
       /\ phase' = "mounted"
       /\ ReadsAlike(Dictionary', Dictionary)]_vars

\* C16: a press of Update that installs a dictionary installs the dataset
\* parsed from the text that is in the dataset textarea; when that text
\* does not parse, Update installs nothing (no dataset of an earlier text).
C16_UpdateInstallsCurrentText ==
  [][(Update /\ phase' = "mounted" /\ editedTooltips' # editedTooltips) =>
       /\ ~parseThrows(datasetText)
       /\ ReadsAlike(Dictionary', parse(datasetText))]_vars

\* the entries of the dictionary that an edit step stored
StoredByEdit ==
  {id \in DOMAIN Dictionary'.props :
     id \notin DOMAIN SpreadProps(Dictionary)
       \/ Dictionary'.props[id] # SpreadProps(Dictionary)[id]}

\* C17: an edit keeps the other field (the entry it stores has the width,
\* or the content, that the previous dictionary resolved for the id), and
\* the entry is a record whose content and width are both strings.
C17_EditStoresStrings ==
  [][EditStep =>
       \A id \in StoredByEdit :
         LET entry == Dictionary'.props[id]
         IN  /\ entry.type = "object"
             /\ DOMAIN entry.props = {"content", "width"}
             /\ \/ entry.props["width"] = getTooltipWidthValue(Dictionary, id)
                \/ entry.props["content"] = getTooltipContent(Dictionary, id)
             /\ entry.props["content"].type = "string"
             /\ entry.props["width"].type = "string"]_vars

\* C18: after the editor unmounts no element carries the empty-content
\* marker (the editor puts it on scanned elements only), whether the
\* element was found by the mount's scan or by a later Update Context.
C18_NoMarkerAfterUnmount ==
  (phase = "unmounted" /\ mounts > 0) =>
    \A n \in Nodes : ~HasEmptyMarker(n)

\* C19: in the mounted editor each element of the scan result carries
\* exactly one click, one mouseover and one mouseout listener of the
\* editor, however many Update Context rescans there were.
C19_OneListenerPerElement ==
  phase = "mounted" =>
    \A i \in 1..Len(allTooltips) : \A t \in 1..Len(EventTypes) :
      Len(LiveListeners(allTooltips[i], EventTypes[t])) = 1

\* C20: the rows displayed are the scanned elements whose id contains the
\* text of the search box (trimmed, lower-cased; all of them when it is
\* empty), in scan order, also after an Update Context.
C20_RowsMatchSearch ==
  phase = "mounted" =>
    searchResults =
      SelectSeq(allTooltips, LAMBDA node :
        Includes(TrimLower(getNodeTooltipId(node)), TrimLower(searchText)))

====
